---- MODULE Spec2Model ----
(***************************************************************************)
(* Model of src/services/translation_service.py (TranslationService).     *)
(*                                                                         *)
(* Strings.  An identifier or a cache key is a sequence of one-character  *)
(* strings.  A chapter text is a sequence of integer tokens: NL is one     *)
(* "\n", SP is one " ", a positive n is a run of n letters (no white       *)
(* space, no newline), and Tag(v) is one letter the provider adds.  Texts  *)
(* never hold two adjacent runs, so two texts are equal exactly when their *)
(* token sequences are.  len(), strip(), split("\n\n") and                 *)
(* "\n\n".join() are computed on the tokens as Python computes them on     *)
(* the characters.                                                         *)
(***************************************************************************)
EXTENDS Integers, Sequences, FiniteSets, TLC

VARIABLES
    cache,        \* self._translation_cache: cache key -> ChapterTranslation
    preferences,  \* self._user_preferences: pref key -> UserTranslationPreference
    clock,        \* the next value datetime.utcnow() returns
    last,         \* the last call made on the service, with what it returned
    pref_log,     \* history: (session_id, chapter_id) -> language last set for it
    job,          \* the arguments of a call of _translate_with_google
    ret,          \* what that call did: provider calls, result, path taken
    callers       \* the translate_chapter calls that run at the same time:
                  \* for each its position in the code and its locals

vars == <<cache, preferences, clock, last, pref_log, job, ret, callers>>

(***************************************************************************)
(* Bounds of the model.                                                    *)
(***************************************************************************)
\* The longest text of the translator's input domain, in paragraphs.
MaxParas == 3
\* The clock stops the service after this many time-stamped calls.
MaxClock == 2

(***************************************************************************)
(* Text primitives.                                                        *)
(***************************************************************************)
NL == -1
SP == -2

\* The letter a provider answer starts with, for answer variant v >= 1.
Tag(v) == -2 - v

max_chunk_size == 4500

IsSpace(tok) == tok \in {NL, SP}

\* len(s)
RECURSIVE TLen(_)
TLen(s) ==
    IF s = <<>> THEN 0
    ELSE (IF Head(s) > 0 THEN Head(s) ELSE 1) + TLen(Tail(s))

RECURSIVE LStrip(_)
LStrip(s) ==
    IF s # <<>> /\ IsSpace(Head(s)) THEN LStrip(Tail(s)) ELSE s

RECURSIVE RStrip(_)
RStrip(s) ==
    IF s # <<>> /\ IsSpace(s[Len(s)]) THEN RStrip(SubSeq(s, 1, Len(s) - 1)) ELSE s

\* s.strip()
Strip(s) == RStrip(LStrip(s))

\* s.split("\n\n"): the leftmost non-overlapping separators, scanning from i.
RECURSIVE SplitFrom(_, _, _, _)
SplitFrom(s, i, cur, acc) ==
    IF i > Len(s) THEN Append(acc, cur)
    ELSE IF i < Len(s) /\ s[i] = NL /\ s[i + 1] = NL
         THEN SplitFrom(s, i + 2, <<>>, Append(acc, cur))
         ELSE SplitFrom(s, i + 1, Append(cur, s[i]), acc)

Split(s) == SplitFrom(s, 1, <<>>, <<>>)

\* "\n\n".join(parts)
RECURSIVE Join(_)
Join(parts) ==
    IF parts = <<>> THEN <<>>
    ELSE IF Len(parts) = 1 THEN parts[1]
    ELSE parts[1] \o <<NL, NL>> \o Join(Tail(parts))

(***************************************************************************)
(* Optional values and dictionaries.  An Optional value is None (the empty *)
(* sequence) or Some(x).                                                   *)
(***************************************************************************)
None == <<>>
Some(x) == <<x>>

\* Python's truth of an Optional[str]: None and "" are both false.
Truthy(opt) == opt # None /\ opt[1] # <<>>

EmptyDict == [k \in {} |-> None]

DictSet(d, key, value) ==
    [k \in DOMAIN d \cup {key} |-> IF k = key THEN value ELSE d[k]]

DictDel(d, key) == [k \in DOMAIN d \ {key} |-> d[k]]

\* d.get(key)
DictGet(d, key) == IF key \in DOMAIN d THEN Some(d[key]) ELSE None

(***************************************************************************)
(* SupportedLanguage (models.translation) and the provider.                *)
(***************************************************************************)
ENGLISH == "english"
URDU == "urdu"
SupportedLanguage == {ENGLISH, URDU}

\* SupportedLanguage is defined outside this file.  OTHER_LANGUAGE stands for a
\* member it may have besides ENGLISH and URDU; the service is given a
\* language of AllLanguages only where a claim is about such a member.
OTHER_LANGUAGE == "other"
AllLanguages == SupportedLanguage \cup {OTHER_LANGUAGE}

\* The answers the provider may give to one request: 0 is a mock that
\* returns the text unchanged, v >= 1 an answer that starts with Tag(v).
Variants == {0, 1}

\* GoogleTranslator(source='en', target=lang_code).translate(text), when it
\* answers; it may also raise (the f of translate_with_google).
Provider(text, v) == IF v = 0 THEN text ELSE <<Tag(v)>> \o text

\* lang_code of line 86
LangCode(target_language) == IF target_language = URDU THEN "ur" ELSE "en"

(***************************************************************************)
(* _translate_with_google, lines 97-117: the chunks sent to the provider, *)
(* in order, from paragraph i on, with the chunk buffer current_chunk.     *)
(***************************************************************************)
\* Mutant of ChunkLoop: the size test forgets the chunk buffer.
RECURSIVE ChunkLoopForgetsBuffer(_, _, _, _)
ChunkLoopForgetsBuffer(paragraphs, i, current_chunk, sent) ==
    IF i > Len(paragraphs)
    THEN IF Strip(current_chunk) # <<>>
         THEN Append(sent, Strip(current_chunk))
         ELSE sent
    ELSE LET para == paragraphs[i] IN
         IF TLen(para) + 2 <= max_chunk_size
         THEN ChunkLoopForgetsBuffer(paragraphs, i + 1,
                                     current_chunk \o para \o <<NL, NL>>, sent)
         ELSE ChunkLoopForgetsBuffer(paragraphs, i + 1, para \o <<NL, NL>>,
                                     IF Strip(current_chunk) # <<>>
                                     THEN Append(sent, Strip(current_chunk))
                                     ELSE sent)

RECURSIVE ChunkLoop(_, _, _, _)
ChunkLoop(paragraphs, i, current_chunk, sent) ==
    IF i > Len(paragraphs)
    THEN IF Strip(current_chunk) # <<>>
         THEN Append(sent, Strip(current_chunk))
         ELSE sent
    ELSE LET para == paragraphs[i] IN
         IF TLen(current_chunk) + TLen(para) + 2 <= max_chunk_size
         THEN ChunkLoop(paragraphs, i + 1, current_chunk \o para \o <<NL, NL>>, sent)
         ELSE ChunkLoop(paragraphs, i + 1, para \o <<NL, NL>>,
                        IF Strip(current_chunk) # <<>>
                        THEN Append(sent, Strip(current_chunk))
                        ELSE sent)

\* Mutant of UsesSingleCall: the threshold itself is sent to the chunker.
UsesSingleCallStrict(content) == TLen(content) < max_chunk_size

\* Which branch of line 94 the content takes.
UsesSingleCall(content) == TLen(content) <= max_chunk_size

\* Every text the call hands to translator.translate when no call fails.
ProviderInputs(content) ==
    IF UsesSingleCall(content) THEN <<content>>
    ELSE ChunkLoop(Split(content), 1, <<>>, <<>>)

\* Mutant of translate_with_google: English goes to the provider as well.
translate_with_google_always(content, target_language, v, f) ==
    LET inputs == ProviderInputs(content)
        req(k) == [target |-> LangCode(target_language), text |-> inputs[k]]
    IN  [status |-> "ok",
         out |-> Join([k \in 1..Len(inputs) |-> Provider(inputs[k], v)]),
         calls |-> [k \in 1..Len(inputs) |-> req(k)],
         path |-> IF UsesSingleCall(content) THEN "single" ELSE "chunked"]

\* _translate_with_google(content, target_language) with a provider that
\* answers variant v and whose f-th call raises (f = 0: none does).
\* calls are the requests made, out the returned text.
translate_with_google(content, target_language, v, f) ==
    IF target_language = ENGLISH
    THEN [status |-> "ok", out |-> content, calls |-> <<>>, path |-> "noop"]
    ELSE LET inputs == ProviderInputs(content)
             path == IF UsesSingleCall(content) THEN "single" ELSE "chunked"
             req(k) == [target |-> LangCode(target_language), text |-> inputs[k]]
         IN  IF f \in 1..Len(inputs)
             THEN [status |-> "RuntimeError", out |-> <<>>,
                   calls |-> [k \in 1..f |-> req(k)], path |-> path]
             ELSE [status |-> "ok",
                   out |-> IF path = "single" THEN Provider(content, v)
                           ELSE Join([k \in 1..Len(inputs) |-> Provider(inputs[k], v)]),
                   calls |-> [k \in 1..Len(inputs) |-> req(k)], path |-> path]

\* The outcomes a provider can produce for this content: (v, f) pairs.
Outcomes(content, target_language) ==
    IF target_language = ENGLISH THEN {<<0, 0>>}
    ELSE (Variants \X {0}) \cup ({0} \X (1..Len(ProviderInputs(content))))

(***************************************************************************)
(* The inputs of the translator alone: texts of up to MaxParas paragraphs. *)
(***************************************************************************)
Paras ==
    { <<>>, <<SP>>, <<1>>, <<SP, 1>>, <<1, NL>>,
      <<max_chunk_size \div 2>>, <<max_chunk_size - 5>>, <<max_chunk_size - 4>>,
      <<max_chunk_size>>, <<max_chunk_size + 1>> }

Contents ==
    UNION { { Join(ps) : ps \in [1..n -> Paras] } : n \in 1..MaxParas }

NoRet == [status |-> "idle", out |-> <<>>, calls |-> <<>>, path |-> "none", v |-> 0]

NoJob == [content |-> <<>>, target_language |-> ENGLISH]

NoCall == [op |-> "none"]

\* Two translate_chapter calls can run at the same time; none has begun.
Callers == {1, 2}
IdleCaller == [pc |-> "idle", content |-> <<>>, cached |-> None,
               translated_content |-> <<>>, error |-> "none"]
NoCallers == [t \in Callers |-> IdleCaller]

InitChunk ==
    /\ cache = EmptyDict
    /\ preferences = EmptyDict
    /\ clock = 0
    /\ last = NoCall
    /\ pref_log = EmptyDict
    /\ job \in [content : Contents, target_language : SupportedLanguage]
    /\ ret = NoRet
    /\ callers = NoCallers

TranslateWithGoogle ==
    /\ ret.status = "idle"
    /\ \E o \in Outcomes(job.content, job.target_language) :
         LET r == translate_with_google(job.content, job.target_language, o[1], o[2])
         IN  ret' = [status |-> r.status, out |-> r.out, calls |-> r.calls,
                     path |-> r.path, v |-> o[1]]
    /\ UNCHANGED <<cache, preferences, clock, last, pref_log, job, callers>>

NextChunk == TranslateWithGoogle

SpecChunk == InitChunk /\ [][NextChunk]_vars

(***************************************************************************)
(* The service: its two dictionaries and the calls on them.                *)
(***************************************************************************)
\* language.value; ":urdu" is the suffix line 237 looks for.
LangValue(language) ==
    IF language = URDU THEN <<"u", "r", "d", "u">>
    ELSE IF language = OTHER_LANGUAGE THEN <<"o", "t", "h", "e", "r">>
    ELSE <<"e", "n", "g", "l", "i", "s", "h">>

\* Mutant of compute_content_hash: a digest that only keeps the emptiness.
compute_content_hash_colliding(content) == <<IF content = <<>> THEN 0 ELSE 1>>

\* _compute_content_hash: the MD5 hex digest, a non-empty string, taken to
\* be free of collisions (a length-prefixed copy of the encoded text).
compute_content_hash(content) == <<TLen(content)>> \o content

\* Mutant of get_cache_key: the language is left out of the key.
get_cache_key_ignores_language(chapter_id, language) == chapter_id \o <<":">>

\* _get_cache_key: f"{chapter_id}:{language.value}"
get_cache_key(chapter_id, language) == chapter_id \o <<":">> \o LangValue(language)

\* f"{session_id}:{chapter_id}" of lines 202 and 227
pref_key(session_id, chapter_id) == session_id \o <<":">> \o chapter_id

\* Mutant of get_cached_translation: the freshness check is left out.
get_cached_translation_unchecked(c, chapter_id, language, content_hash) ==
    [cache |-> c, found |-> DictGet(c, get_cache_key(chapter_id, language))]

\* get_cached_translation on the dictionary c: the dictionary it leaves and
\* the value it returns.  A ChapterTranslation object is always true.
get_cached_translation(c, chapter_id, language, content_hash) ==
    LET cache_key == get_cache_key(chapter_id, language)
        cached == DictGet(c, cache_key)
    IN  IF cached # None
        THEN IF Truthy(content_hash)
                  /\ cached[1].original_content_hash # content_hash[1]
             THEN [cache |-> DictDel(c, cache_key), found |-> None]
             ELSE [cache |-> c, found |-> cached]
        ELSE [cache |-> c, found |-> None]

\* The ChapterTranslation of lines 163-170.
ChapterTranslation(chapter_id, language, content_hash, translated_content, now) ==
    [chapter_id |-> chapter_id, language |-> language,
     original_content_hash |-> content_hash,
     translated_content |-> translated_content,
     created_at |-> now, updated_at |-> now]

\* What a translate_chapter call hands back: a TranslationResponse, or the
\* RuntimeError of line 121, with the provider requests it made and the
\* text it gave the translator (None when the translator was not called).
Response(status, translated_content, cached, translated_at, calls, translator) ==
    [status |-> status, translated_content |-> translated_content,
     cached |-> cached, translated_at |-> translated_at,
     calls |-> calls, translator |-> translator]

\* Mutant of translate_chapter: an empty translation is not cached.
translate_chapter_skips_empty(c, now, chapter_id, content, target_language, v, f) ==
    LET content_hash == compute_content_hash(content)
        lookup == get_cached_translation(c, chapter_id, target_language,
                                         Some(content_hash))
        r == translate_with_google(content, target_language, v, f)
    IN  IF lookup.found # None
        THEN [cache |-> lookup.cache, stamped |-> FALSE,
              resp |-> Response("ok", lookup.found[1].translated_content, TRUE,
                                lookup.found[1].updated_at, <<>>, None)]
        ELSE IF r.status # "ok"
        THEN [cache |-> lookup.cache, stamped |-> FALSE,
              resp |-> Response(r.status, <<>>, FALSE, 0, r.calls, Some(content))]
        ELSE [cache |-> IF r.out = <<>> THEN lookup.cache
                        ELSE DictSet(lookup.cache,
                                     get_cache_key(chapter_id, target_language),
                                     ChapterTranslation(chapter_id, target_language,
                                                        content_hash, r.out, now)),
              stamped |-> TRUE,
              resp |-> Response("ok", r.out, FALSE, now, r.calls, Some(content))]

\* Mutant of translate_chapter: the record is cached before the provider's
\* failure is looked at.
translate_chapter_caches_failure(c, now, chapter_id, content, target_language, v, f) ==
    LET content_hash == compute_content_hash(content)
        lookup == get_cached_translation(c, chapter_id, target_language,
                                         Some(content_hash))
        r == translate_with_google(content, target_language, v, f)
        stored == DictSet(lookup.cache, get_cache_key(chapter_id, target_language),
                          ChapterTranslation(chapter_id, target_language,
                                             content_hash, r.out, now))
    IN  IF lookup.found # None
        THEN [cache |-> lookup.cache, stamped |-> FALSE,
              resp |-> Response("ok", lookup.found[1].translated_content, TRUE,
                                lookup.found[1].updated_at, <<>>, None)]
        ELSE IF r.status # "ok"
        THEN [cache |-> stored, stamped |-> FALSE,
              resp |-> Response(r.status, <<>>, FALSE, 0, r.calls, Some(content))]
        ELSE [cache |-> stored, stamped |-> TRUE,
              resp |-> Response("ok", r.out, FALSE, now, r.calls, Some(content))]

\* Mutant of translate_chapter: a refresh keeps the created_at of the entry
\* it replaces.
translate_chapter_keeps_created(c, now, chapter_id, content, target_language, v, f) ==
    LET content_hash == compute_content_hash(content)
        cache_key == get_cache_key(chapter_id, target_language)
        old == DictGet(c, cache_key)
        lookup == get_cached_translation(c, chapter_id, target_language,
                                         Some(content_hash))
        r == translate_with_google(content, target_language, v, f)
        fresh == ChapterTranslation(chapter_id, target_language,
                                    content_hash, r.out, now)
    IN  IF lookup.found # None
        THEN [cache |-> lookup.cache, stamped |-> FALSE,
              resp |-> Response("ok", lookup.found[1].translated_content, TRUE,
                                lookup.found[1].updated_at, <<>>, None)]
        ELSE IF r.status # "ok"
        THEN [cache |-> lookup.cache, stamped |-> FALSE,
              resp |-> Response(r.status, <<>>, FALSE, 0, r.calls, Some(content))]
        ELSE [cache |-> DictSet(lookup.cache, cache_key,
                                IF old = None THEN fresh
                                ELSE [fresh EXCEPT !.created_at = old[1].created_at]),
              stamped |-> TRUE,
              resp |-> Response("ok", r.out, FALSE, now, r.calls, Some(content))]

\* Mutant of translate_chapter: a cache hit refreshes the entry's updated_at.
translate_chapter_touches_hit(c, now, chapter_id, content, target_language, v, f) ==
    LET content_hash == compute_content_hash(content)
        cache_key == get_cache_key(chapter_id, target_language)
        lookup == get_cached_translation(c, chapter_id, target_language,
                                         Some(content_hash))
        r == translate_with_google(content, target_language, v, f)
    IN  IF lookup.found # None
        THEN [cache |-> DictSet(lookup.cache, cache_key,
                                [lookup.found[1] EXCEPT !.updated_at = now]),
              stamped |-> TRUE,
              resp |-> Response("ok", lookup.found[1].translated_content, TRUE,
                                now, <<>>, None)]
        ELSE IF r.status # "ok"
        THEN [cache |-> lookup.cache, stamped |-> FALSE,
              resp |-> Response(r.status, <<>>, FALSE, 0, r.calls, Some(content))]
        ELSE [cache |-> DictSet(lookup.cache, cache_key,
                                ChapterTranslation(chapter_id, target_language,
                                                   content_hash, r.out, now)),
              stamped |-> TRUE,
              resp |-> Response("ok", r.out, FALSE, now, r.calls, Some(content))]

\* translate_chapter on the dictionary c at time now, with a provider that
\* answers variant v and whose f-th call raises: the dictionary it leaves,
\* whether it read the clock (line 162), and what it hands back.
translate_chapter(c, now, chapter_id, content, target_language, v, f) ==
    LET content_hash == compute_content_hash(content)
        lookup == get_cached_translation(c, chapter_id, target_language,
                                         Some(content_hash))
        r == translate_with_google(content, target_language, v, f)
    IN  IF lookup.found # None
        THEN [cache |-> lookup.cache, stamped |-> FALSE,
              resp |-> Response("ok", lookup.found[1].translated_content, TRUE,
                                lookup.found[1].updated_at, <<>>, None)]
        ELSE IF r.status # "ok"
        THEN [cache |-> lookup.cache, stamped |-> FALSE,
              resp |-> Response(r.status, <<>>, FALSE, 0, r.calls, Some(content))]
        ELSE [cache |-> DictSet(lookup.cache,
                                get_cache_key(chapter_id, target_language),
                                ChapterTranslation(chapter_id, target_language,
                                                   content_hash, r.out, now)),
              stamped |-> TRUE,
              resp |-> Response("ok", r.out, FALSE, now, r.calls, Some(content))]

(***************************************************************************)
(* The arguments the calls are made with.                                  *)
(***************************************************************************)
ChapterIds == { <<"c">>, <<"c", ":", "c">> }
SessionIds == { <<"s">>, <<"s", ":", "c">> }

ServiceContents == { <<>>, <<5>>, <<max_chunk_size, NL, NL, 5>> }

\* content_hash of get_cached_translation: omitted, "", or a digest.
ContentHashes ==
    {None, Some(<<>>)} \cup { Some(compute_content_hash(t)) : t \in ServiceContents }

Init ==
    /\ cache = EmptyDict
    /\ preferences = EmptyDict
    /\ clock = 0
    /\ last = NoCall
    /\ pref_log = EmptyDict
    /\ job = NoJob
    /\ ret = NoRet
    /\ callers = NoCallers

\* What the provider may do during a call, for each text and language: any
\* of its outcomes, or, for a provider that gives one answer to a request
\* and never raises, that answer.
AnyOutcome ==
    [content \in ServiceContents, target_language \in AllLanguages |->
        Outcomes(content, target_language)]

DeterministicOutcome ==
    [content \in ServiceContents, target_language \in AllLanguages |-> { <<1, 0>> }]

\* A call translate_chapter(chapter_id, content, target_language) with a
\* provider of the given outcomes.  before
\* is the entry the cache held under the call's key when the call began.
TranslateChapterWith(languages, outcomes) ==
    /\ \E chapter_id \in ChapterIds, content \in ServiceContents,
          target_language \in languages :
         \E o \in outcomes[content, target_language] :
            LET t == translate_chapter(cache, clock, chapter_id, content,
                                       target_language, o[1], o[2])
            IN  /\ t.stamped => clock < MaxClock
                /\ clock' = IF t.stamped THEN clock + 1 ELSE clock
                /\ cache' = t.cache
                /\ last' = [op |-> "translate_chapter", chapter_id |-> chapter_id,
                            content |-> content, language |-> target_language,
                            before |-> DictGet(cache, get_cache_key(chapter_id,
                                                                    target_language)),
                            resp |-> t.resp]
    /\ UNCHANGED <<preferences, pref_log, job, ret, callers>>

TranslateChapterCall == TranslateChapterWith(SupportedLanguage, AnyOutcome)

\* The same call, the provider giving one answer to a request and never
\* raising.
TranslateChapterDeterministic ==
    TranslateChapterWith(SupportedLanguage, DeterministicOutcome)

\* The same call again, the enumeration having a member besides ENGLISH and
\* URDU.
TranslateChapterAnyLanguage ==
    TranslateChapterWith(AllLanguages, DeterministicOutcome)

\* get_cached_translation(chapter_id, language, content_hash) called directly.
GetCachedTranslation ==
    /\ \E chapter_id \in ChapterIds, language \in SupportedLanguage,
          content_hash \in ContentHashes :
         LET lookup == get_cached_translation(cache, chapter_id, language, content_hash)
         IN  /\ cache' = lookup.cache
             /\ last' = [op |-> "get_cached_translation", chapter_id |-> chapter_id,
                         language |-> language, content_hash |-> content_hash,
                         found |-> lookup.found]
    /\ UNCHANGED <<preferences, pref_log, clock, job, ret, callers>>

\* set_user_preference(session_id, chapter_id, language)
SetUserPreference ==
    /\ clock < MaxClock
    /\ \E session_id \in SessionIds, chapter_id \in ChapterIds,
          language \in SupportedLanguage :
         LET preference == [session_id |-> session_id, chapter_id |-> chapter_id,
                            preferred_language |-> language, updated_at |-> clock]
         IN  /\ preferences' = DictSet(preferences, pref_key(session_id, chapter_id),
                                       preference)
             /\ pref_log' = DictSet(pref_log, <<session_id, chapter_id>>, language)
             /\ last' = [op |-> "set_user_preference", session_id |-> session_id,
                         chapter_id |-> chapter_id, language |-> language,
                         found |-> Some(preference)]
    /\ clock' = clock + 1
    /\ UNCHANGED <<cache, job, ret, callers>>

\* get_user_preference(session_id, chapter_id)
GetUserPreference ==
    /\ \E session_id \in SessionIds, chapter_id \in ChapterIds :
         last' = [op |-> "get_user_preference", session_id |-> session_id,
                  chapter_id |-> chapter_id,
                  found |-> DictGet(preferences, pref_key(session_id, chapter_id))]
    /\ UNCHANGED <<cache, preferences, pref_log, clock, job, ret, callers>>

\* The translation cache and the preference store share no state and no
\* call touches both, so each is explored by a specification of its own.
Next ==
    \/ TranslateChapterCall
    \/ GetCachedTranslation

Spec == Init /\ [][Next]_vars

NextPref ==
    \/ SetUserPreference
    \/ GetUserPreference

SpecPref == Init /\ [][NextPref]_vars

\* Sequences of translate_chapter calls on a service whose provider is
\* deterministic and never fails.
NextDeterministic == TranslateChapterDeterministic

SpecDeterministic == Init /\ [][NextDeterministic]_vars

\* k.split(":")[0]
BeforeColon(k) ==
    LET colons == { i \in 1..Len(k) : k[i] = ":" }
    IN  IF colons = {} THEN k
        ELSE SubSeq(k, 1, (CHOOSE i \in colons : \A j \in colons : i <= j) - 1)

\* k.endswith(suffix)
EndsWith(k, suffix) ==
    /\ Len(k) >= Len(suffix)
    /\ SubSeq(k, Len(k) - Len(suffix) + 1, Len(k)) = suffix

\* The keys of the dictionary c among keys, in the order keys() gives them:
\* the order of insertion.  An entry is only ever stored under a key the
\* dictionary does not hold (the lookup of line 147 has hit or evicted),
\* each store reads a later clock, so this is the order of created_at.
RECURSIVE KeysInOrder(_, _)
KeysInOrder(c, keys) ==
    IF keys = {} THEN <<>>
    ELSE LET first == CHOOSE k \in keys :
                         \A j \in keys : c[k].created_at <= c[j].created_at
         IN  <<first>> \o KeysInOrder(c, keys \ {first})

\* get_cache_stats on the dictionaries c and prefs
get_cache_stats(c, prefs) ==
    LET urdu_keys == KeysInOrder(c, { k \in DOMAIN c :
                                        EndsWith(k, <<":", "u", "r", "d", "u">>) })
    IN  [cached_translations |-> Cardinality(DOMAIN c),
         user_preferences |-> Cardinality(DOMAIN prefs),
         chapters_with_urdu |->
             [i \in 1..Len(urdu_keys) |-> BeforeColon(urdu_keys[i])]]

\* get_cache_stats()
GetCacheStats ==
    /\ last' = [op |-> "get_cache_stats",
                stats |-> get_cache_stats(cache, preferences)]
    /\ UNCHANGED <<cache, preferences, pref_log, clock, job, ret, callers>>

\* The calls that fill both dictionaries, with the statistics and a language
\* enumeration with a third member.  The provider answers every request,
\* always alike: its failures and its other answers, like the direct
\* lookups, are explored in Spec and SpecPref.
NextService ==
    \/ TranslateChapterAnyLanguage
    \/ SetUserPreference
    \/ GetCacheStats

SpecService == Init /\ [][NextService]_vars

(***************************************************************************)
(* Claims about the translator alone (SpecChunk).                          *)
(***************************************************************************)
Translated == ret.status # "idle" /\ job.target_language # ENGLISH

CallTexts == [k \in 1..Len(ret.calls) |-> ret.calls[k].text]

AllParasFit(content) ==
    \A i \in 1..Len(Split(content)) : TLen(Split(content)[i]) <= max_chunk_size

\* C5: for a text longer than max_chunk_size, a provider call longer than
\* max_chunk_size is made only for a chunk that is one single paragraph
\* itself longer than max_chunk_size; so when every paragraph fits, every
\* provider call fits.
C5_ProviderSizeLimit ==
    (Translated /\ TLen(job.content) > max_chunk_size) =>
        LET paragraphs == Split(job.content) IN
        /\ AllParasFit(job.content) =>
               \A k \in 1..Len(CallTexts) : TLen(CallTexts[k]) <= max_chunk_size
        /\ \A k \in 1..Len(CallTexts) :
               TLen(CallTexts[k]) > max_chunk_size =>
                   \E i \in 1..Len(paragraphs) :
                       /\ TLen(paragraphs[i]) > max_chunk_size
                       /\ CallTexts[k] = Strip(paragraphs[i])

\* C5 witness: a split text whose paragraphs all fit was sent in several
\* chunks, one of them of exactly max_chunk_size characters.
C5_Witness ==
    /\ Translated /\ ret.status = "ok"
    /\ TLen(job.content) > max_chunk_size
    /\ AllParasFit(job.content)
    /\ Len(CallTexts) >= 2
    /\ \E k \in 1..Len(CallTexts) : TLen(CallTexts[k]) = max_chunk_size

\* C6: for every text that is split, with the mock provider that returns
\* its input, the output has as many paragraphs as the input.
C6_ParagraphCountPreserved ==
    (Translated /\ ret.status = "ok" /\ ret.v = 0
        /\ TLen(job.content) > max_chunk_size) =>
        Len(Split(ret.out)) = Len(Split(job.content))

\* C7: a text of at most max_chunk_size characters, whatever its
\* paragraphs, makes exactly one provider call, with the whole text, and
\* the call's answer is returned as it is; a text of max_chunk_size + 1
\* characters is split into stripped chunks instead.
C7_SingleCallForShortText ==
    /\ (Translated /\ TLen(job.content) <= max_chunk_size) =>
           /\ ret.path = "single"
           /\ CallTexts = <<job.content>>
           /\ ret.calls[1].target = LangCode(job.target_language)
           /\ ret.status = "ok" => ret.out = Provider(job.content, ret.v)
    /\ (Translated /\ TLen(job.content) = max_chunk_size + 1) =>
           /\ ret.path = "chunked"
           /\ \A k \in 1..Len(CallTexts) : CallTexts[k] = Strip(CallTexts[k])

\* C7 witness: a text of several paragraphs and exactly max_chunk_size
\* characters was translated in one call.
C7_Witness ==
    /\ Translated /\ ret.status = "ok"
    /\ TLen(job.content) = max_chunk_size
    /\ Len(Split(job.content)) >= 2
    /\ Len(ret.calls) = 1

(***************************************************************************)
(* Claims about the translation cache (Spec).                              *)
(***************************************************************************)
IsTranslate(call) == call.op = "translate_chapter"

CallKey(call) == get_cache_key(call.chapter_id, call.language)

\* Every text the translator can return for content, the provider answering.
TranslationsOf(content, language) ==
    { translate_with_google(content, language, v, 0).out : v \in Variants }

\* C1: a translate_chapter call for text T2 that follows a successful call
\* for another text T1 of the same chapter and language finds T1's entry,
\* never answers cached = TRUE, hands T2 to the translator, and when it
\* returns its answer is a translation of T2 and the cache entry holds the
\* fingerprint of T2; the stale entry is gone even when the provider fails.
C1_Invalidation ==
    [][ ( /\ IsTranslate(last) /\ last.resp.status = "ok"
          /\ IsTranslate(last')
          /\ last'.chapter_id = last.chapter_id
          /\ last'.language = last.language
          /\ last'.content # last.content )
        => LET key == CallKey(last')
               T2 == last'.content
           IN  /\ key \in DOMAIN cache
               /\ cache[key].original_content_hash = compute_content_hash(last.content)
               /\ ~last'.resp.cached
               /\ last'.resp.translator = Some(T2)
               /\ last'.resp.status = "ok" =>
                      /\ last'.resp.translated_content \in TranslationsOf(T2, last'.language)
                      /\ key \in DOMAIN cache'
                      /\ cache'[key].original_content_hash = compute_content_hash(T2)
                      /\ cache'[key].translated_content = last'.resp.translated_content
               /\ last'.resp.status # "ok" => key \notin DOMAIN cache'
      ]_vars

\* C1 witness: a call found the entry of another text under its key and
\* returned a fresh translation, now cached under the new fingerprint.
C1_Witness ==
    /\ IsTranslate(last) /\ last.resp.status = "ok" /\ ~last.resp.cached
    /\ last.before # None
    /\ last.before[1].original_content_hash # compute_content_hash(last.content)
    /\ last.before[1].translated_content # last.resp.translated_content
    /\ cache[CallKey(last)].original_content_hash = compute_content_hash(last.content)

\* C2: when a successful call that found no entry under its key is followed
\* by a successful call with the same arguments, the first answered
\* cached = FALSE, the second answers cached = TRUE, and both return the
\* same translated_content.
C2_Idempotence ==
    [][ ( /\ IsTranslate(last) /\ last.resp.status = "ok" /\ last.before = None
          /\ IsTranslate(last') /\ last'.resp.status = "ok"
          /\ last'.chapter_id = last.chapter_id
          /\ last'.content = last.content
          /\ last'.language = last.language )
        => /\ ~last.resp.cached
           /\ last'.resp.cached
           /\ last'.resp.translated_content = last.resp.translated_content
      ]_vars

\* C2 witness: the empty text, translated to Urdu by the one store made so
\* far, is served from the cache.
C2_Witness ==
    /\ IsTranslate(last) /\ last.resp.status = "ok" /\ last.resp.cached
    /\ last.content = <<>> /\ last.language = URDU
    /\ clock = 1
    /\ last.resp.translated_content = cache[CallKey(last)].translated_content

\* C3: every cache entry is stored under the key of its own chapter_id and
\* language, and its original_content_hash is the fingerprint of exactly
\* the text its translated_content is a translation of.
C3_CacheEntryInvariant ==
    \A k \in DOMAIN cache :
        LET e == cache[k] IN
        /\ k = get_cache_key(e.chapter_id, e.language)
        /\ \E t \in ServiceContents : e.original_content_hash = compute_content_hash(t)
        /\ \A t \in ServiceContents :
               (e.original_content_hash = compute_content_hash(t))
                   <=> (e.translated_content \in TranslationsOf(t, e.language))

\* C3 witness: after a failed call the cache holds two entries, one of them
\* the chunked translation of the long text.
C3_Witness ==
    /\ IsTranslate(last) /\ last.resp.status # "ok"
    /\ Cardinality(DOMAIN cache) = 2
    /\ \E k \in DOMAIN cache :
           /\ cache[k].language = URDU
           /\ TLen(cache[k].translated_content) > max_chunk_size

\* C4: a translate_chapter call in which a provider call fails raises the
\* RuntimeError, creates or overwrites no cache entry (every entry left was
\* there before, unchanged), and asks the provider for each chunk at most
\* once, in order, stopping at the failed one.
C4_FailureLeavesNoPartialResult ==
    [][ (IsTranslate(last') /\ last'.resp.status # "ok")
        => /\ last'.resp.status = "RuntimeError"
           /\ \A k \in DOMAIN cache' : k \in DOMAIN cache /\ cache'[k] = cache[k]
           /\ LET inputs == ProviderInputs(last'.content)
                  calls == last'.resp.calls
              IN  /\ Len(calls) \in 1..Len(inputs)
                  /\ \A i \in 1..Len(calls) : calls[i].text = inputs[i]
      ]_vars

\* C4 witness: the provider failed on the second chunk of a call that had
\* found a stale entry; that entry is gone and another entry is still there.
C4_Witness ==
    /\ IsTranslate(last) /\ last.resp.status = "RuntimeError"
    /\ Len(last.resp.calls) = 2
    /\ last.before # None
    /\ CallKey(last) \notin DOMAIN cache
    /\ DOMAIN cache # {}

\* C8: translate_chapter to English returns the text unchanged and makes
\* no provider call, on a cache miss and on a cache hit alike.
C8_EnglishIsIdentity ==
    (IsTranslate(last) /\ last.language = ENGLISH) =>
        /\ last.resp.status = "ok"
        /\ last.resp.translated_content = last.content
        /\ last.resp.calls = <<>>

\* C8 witness: the long text was served to English from the cache, after
\* two entries had been stored.
C8_Witness ==
    /\ IsTranslate(last) /\ last.language = ENGLISH
    /\ last.resp.cached
    /\ TLen(last.content) > max_chunk_size
    /\ clock = 2

\* C9: get_cached_translation on an entry whose fingerprint differs from a
\* supplied content_hash deletes the entry and returns None; with a supplied
\* content_hash equal to the stored one, or with none supplied, it returns
\* the entry and leaves the cache as it was; on a missing key it returns
\* None and leaves the cache as it was.
C9_CacheGetContract ==
    [][ last'.op = "get_cached_translation"
        => LET key == CallKey(last')
               h == last'.content_hash
               e == DictGet(cache, key)
           IN  /\ (e # None /\ h # None /\ e[1].original_content_hash # h[1])
                      => (cache' = DictDel(cache, key) /\ last'.found = None)
               /\ (e # None /\ h # None /\ e[1].original_content_hash = h[1])
                      => (cache' = cache /\ last'.found = e)
               /\ h = None => (cache' = cache /\ last'.found = e)
               /\ e = None => (cache' = cache /\ last'.found = None)
      ]_vars

\* C9, the part the code keeps: the claim holds of every call whose
\* content_hash is omitted or is a non-empty string.
C9_ExceptEmptyHash ==
    [][ (last'.op = "get_cached_translation" /\ last'.content_hash # Some(<<>>))
        => LET key == CallKey(last')
               h == last'.content_hash
               e == DictGet(cache, key)
           IN  /\ (e # None /\ h # None /\ e[1].original_content_hash # h[1])
                      => (cache' = DictDel(cache, key) /\ last'.found = None)
               /\ (e # None /\ h # None /\ e[1].original_content_hash = h[1])
                      => (cache' = cache /\ last'.found = e)
               /\ h = None => (cache' = cache /\ last'.found = e)
               /\ e = None => (cache' = cache /\ last'.found = None)
      ]_vars

(***************************************************************************)
(* Claims about the preference store (SpecPref).                           *)
(***************************************************************************)
\* C10: get_user_preference(session_id, chapter_id) returns the language of
\* the latest set_user_preference call for that same pair, and None when
\* there was no such call.
C10_PreferenceLastWriteWins ==
    last.op = "get_user_preference" =>
        LET logged == DictGet(pref_log, <<last.session_id, last.chapter_id>>) IN
        /\ logged = None => last.found = None
        /\ logged # None =>
               /\ last.found # None
               /\ last.found[1].preferred_language = logged[1]

\* What get_user_preference(session_id, chapter_id) returns in a given store.
StoredPreference(prefs, session_id, chapter_id) ==
    DictGet(prefs, pref_key(session_id, chapter_id))

\* C11: the preference key is injective on (session_id, chapter_id), also
\* for identifiers that contain ':': a call set_user_preference(s, c, lang)
\* leaves what get_user_preference(s2, c2) returns unchanged for every pair
\* (s2, c2) other than (s, c), and two distinct pairs never share one stored
\* preference.
C11_PreferenceKeyIsolation ==
    [][ last'.op = "set_user_preference" =>
          /\ \A s2 \in SessionIds, c2 \in ChapterIds :
                <<s2, c2>> # <<last'.session_id, last'.chapter_id>> =>
                    StoredPreference(preferences', s2, c2)
                        = StoredPreference(preferences, s2, c2)
          /\ \A s1 \in SessionIds, c1 \in ChapterIds,
                s2 \in SessionIds, c2 \in ChapterIds :
                (/\ <<s1, c1>> # <<s2, c2>>
                 /\ StoredPreference(preferences', s1, c1) # None)
                    => pref_key(s1, c1) # pref_key(s2, c2)
      ]_vars

(***************************************************************************)
(* Further claims about the translation cache (Spec).                      *)
(***************************************************************************)
\* The call recorded in last translated and stored a record.
Stored(call) ==
    IsTranslate(call) /\ call.resp.status = "ok" /\ ~call.resp.cached

\* C12 as stated: a translate_chapter call that stores a record under a key
\* that holds an entry (a refresh after the text changed) keeps that entry's
\* created_at and sets updated_at to the time of the call.
C12_CreatedAtStable ==
    [][ (Stored(last') /\ DictGet(cache, CallKey(last')) # None) =>
          /\ cache'[CallKey(last')].created_at = cache[CallKey(last')].created_at
          /\ cache'[CallKey(last')].updated_at = clock
      ]_vars

\* C12, amended: every translate_chapter call that stores a record, a first
\* write or a refresh, sets both created_at and updated_at of the entry to
\* the time of the call, and answers with that time; the created_at of the
\* entry it replaces is not kept.
C12_CreatedAtReset ==
    [][ Stored(last') =>
          /\ cache'[CallKey(last')].created_at = clock
          /\ cache'[CallKey(last')].updated_at = clock
          /\ last'.resp.translated_at = clock
      ]_vars

\* A refresh happened: the call replaced an entry created earlier, and the
\* new entry carries a later created_at.
C12_Witness ==
    /\ Stored(last)
    /\ last.before # None
    /\ cache[CallKey(last)].created_at > last.before[1].created_at

(***************************************************************************)
(* Claims about the service as a whole (SpecService).                      *)
(***************************************************************************)
\* C13: a translate_chapter call for a language that is neither ENGLISH nor
\* URDU fails with an unsupported-language error, makes no provider request
\* (so none with another language's code) and stores no cache entry.
C13_UnsupportedLanguageFails ==
    [][ (IsTranslate(last') /\ last'.language \notin {ENGLISH, URDU}) =>
          /\ last'.resp.status = "UnsupportedLanguage"
          /\ last'.resp.calls = <<>>
          /\ \A k \in DOMAIN cache' : k \in DOMAIN cache /\ cache'[k] = cache[k]
      ]_vars

\* The cache c holds an entry for the call's key whose fingerprint is that
\* of the call's text.
FreshEntry(c, call) ==
    /\ DictGet(c, CallKey(call)) # None
    /\ c[CallKey(call)].original_content_hash = compute_content_hash(call.content)

\* C14: a translate_chapter call that finds an entry for its key with the
\* fingerprint of its text makes no provider request, leaves the whole
\* cache and the preference store as they were, and answers cached with the
\* entry's translated_content and, as translated_at, the entry's updated_at;
\* so repeating the call leaves the cache as the first call left it.
C14_CacheHitNoEffects ==
    [][ (IsTranslate(last') /\ FreshEntry(cache, last')) =>
          /\ last'.resp.status = "ok"
          /\ last'.resp.cached
          /\ last'.resp.calls = <<>>
          /\ last'.resp.translator = None
          /\ cache' = cache
          /\ preferences' = preferences
          /\ last'.resp.translated_content = cache[CallKey(last')].translated_content
          /\ last'.resp.translated_at = cache[CallKey(last')].updated_at
      ]_vars

\* A hit on an entry stored earlier, the preference store holding a record.
C14_Witness ==
    /\ IsTranslate(last)
    /\ last.resp.cached
    /\ FreshEntry(cache, last)
    /\ last.language # ENGLISH
    /\ DOMAIN preferences # {}

\* The elements of a sequence.
Range(seq) == { seq[i] : i \in 1..Len(seq) }

\* C15: get_cache_stats changes neither the cache nor the preference store;
\* cached_translations is the number of (chapter_id, language) pairs that
\* have an entry, user_preferences the number of stored preferences, and
\* chapters_with_urdu lists exactly the chapter_ids that have an Urdu entry,
\* each once, whatever characters the chapter_id holds.
C15_CacheStats ==
    [][ last'.op = "get_cache_stats" =>
          /\ cache' = cache
          /\ preferences' = preferences
          /\ last'.stats.cached_translations =
                Cardinality({ <<cache[k].chapter_id, cache[k].language>> :
                                k \in DOMAIN cache })
          /\ last'.stats.user_preferences = Cardinality(DOMAIN preferences)
          /\ Range(last'.stats.chapters_with_urdu) =
                { cache[k].chapter_id :
                    k \in { j \in DOMAIN cache : cache[j].language = URDU } }
          /\ Len(last'.stats.chapters_with_urdu) =
                Cardinality(Range(last'.stats.chapters_with_urdu))
      ]_vars

(***************************************************************************)
(* A further claim about the translator alone (SpecChunk).                 *)
(***************************************************************************)
RECURSIVE Flatten(_)
Flatten(seqs) == IF seqs = <<>> THEN <<>> ELSE Head(seqs) \o Flatten(Tail(seqs))

\* The paragraphs the provider was sent, chunk after chunk.
SentParagraphs == Flatten([k \in 1..Len(CallTexts) |-> Split(CallTexts[k])])

\* The index, among the sent paragraphs, of the first paragraph of chunk k.
RECURSIVE FirstOfChunk(_)
FirstOfChunk(k) ==
    IF k = 1 THEN 1 ELSE FirstOfChunk(k - 1) + Len(Split(CallTexts[k - 1]))

\* The length the chunk buffer had with the input paragraphs from..to in
\* it, each followed by the separator.
RECURSIVE BufferLen(_, _, _)
BufferLen(paragraphs, from, to) ==
    IF from > to THEN 0
    ELSE TLen(paragraphs[from]) + 2 + BufferLen(paragraphs, from + 1, to)

\* Blank ends apart, the same text.
SameParagraph(p, q) == Strip(p) = Strip(q)

\* C16: for a text longer than max_chunk_size whose provider calls all
\* answer, the paragraphs of the chunks sent are, in order, the paragraphs
\* of the input, each once (blank ends apart); the output is the answers
\* joined in that order and, with the provider that returns its input,
\* holds those paragraphs; a chunk ends only where the buffer with the next
\* paragraph and its separator would be longer than max_chunk_size; and no
\* chunk sent is empty or blank.
C16_GreedyInOrderChunking ==
    (Translated /\ ret.status = "ok" /\ TLen(job.content) > max_chunk_size) =>
        LET paragraphs == Split(job.content) IN
        /\ \A k \in 1..Len(CallTexts) : Strip(CallTexts[k]) # <<>>
        /\ ret.out = Join([k \in 1..Len(CallTexts) |-> Provider(CallTexts[k], ret.v)])
        /\ Len(SentParagraphs) = Len(paragraphs)
        /\ \A i \in 1..Len(paragraphs) : SameParagraph(SentParagraphs[i], paragraphs[i])
        /\ ret.v = 0 =>
              /\ Len(Split(ret.out)) = Len(paragraphs)
              /\ \A i \in 1..Len(paragraphs) :
                    SameParagraph(Split(ret.out)[i], paragraphs[i])
        /\ \A k \in 1..(Len(CallTexts) - 1) :
              BufferLen(paragraphs, FirstOfChunk(k), FirstOfChunk(k + 1) - 1)
                  + TLen(paragraphs[FirstOfChunk(k + 1)]) + 2 > max_chunk_size

\* No paragraph of the text is empty or blank.
NoBlankParagraph(content) ==
    \A i \in 1..Len(Split(content)) : Strip(Split(content)[i]) # <<>>

\* C16 for the texts without an empty or blank paragraph.
C16_ExceptBlankParagraphs ==
    NoBlankParagraph(job.content) => C16_GreedyInOrderChunking

(***************************************************************************)
(* Claims about the keys of the translation cache (Spec).                  *)
(***************************************************************************)
\* translate_chapter and get_cached_translation are the calls made on a key.
KeyedCall(call) == call.op \in {"translate_chapter", "get_cached_translation"}

\* The fingerprint the call's lookup is given.
SuppliedHash(call) ==
    IF IsTranslate(call) THEN Some(compute_content_hash(call.content))
    ELSE call.content_hash

\* C17: the cache key is injective on (chapter_id, language), also for a
\* chapter_id that holds ':'; a translate_chapter or get_cached_translation
\* call on one pair leaves what the cache holds under every other key as it
\* was; and the entry of the call's own pair is removed or replaced only
\* when the lookup is given a fingerprint other than the stored one.
C17_KeyIsolation ==
    /\ \A c1 \in ChapterIds, c2 \in ChapterIds,
          l1 \in SupportedLanguage, l2 \in SupportedLanguage :
          get_cache_key(c1, l1) = get_cache_key(c2, l2) => <<c1, l1>> = <<c2, l2>>
    /\ [][ KeyedCall(last') =>
              LET cache_key == CallKey(last') IN
              /\ DOMAIN cache' \ {cache_key} = DOMAIN cache \ {cache_key}
              /\ \A k \in DOMAIN cache \ {cache_key} : cache'[k] = cache[k]
              /\ (/\ cache_key \in DOMAIN cache
                  /\ DictGet(cache', cache_key) # Some(cache[cache_key]))
                    => /\ SuppliedHash(last') # None
                       /\ SuppliedHash(last')[1]
                              # cache[cache_key].original_content_hash
          ]_vars

\* A translate_chapter call found a stale entry under its key, evicted it
\* and failed, and the entry of another key is still there.
C17_Witness ==
    /\ IsTranslate(last)
    /\ last.resp.status = "RuntimeError"
    /\ last.before # None
    /\ DictGet(cache, CallKey(last)) = None
    /\ Cardinality(DOMAIN cache) = 1

(***************************************************************************)
(* Two translate_chapter calls on one key at the same time (SpecConc).     *)
(* A call is a chain of steps, each one statement on the shared            *)
(* dictionary: the read of line 59, the test and del of lines 61-69, the   *)
(* translator of line 159, the store of lines 162-173.  Between two steps  *)
(* of one call the other call may take any number of its own.              *)
(***************************************************************************)
ConcChapter == <<"c">>
ConcLanguage == URDU
ConcContents == { <<>>, <<5>> }
ConcKey == get_cache_key(ConcChapter, ConcLanguage)

\* Line 59: cached = self._translation_cache.get(cache_key), the call
\* having begun with some text.
CallerGet(t) ==
    /\ callers[t].pc = "idle"
    /\ \E content \in ConcContents :
         callers' = [callers EXCEPT ![t] =
                        [IdleCaller EXCEPT !.pc = "check", !.content = content,
                                           !.cached = DictGet(cache, ConcKey)]]
    /\ UNCHANGED <<cache, preferences, clock, last, pref_log, job, ret>>

\* Lines 61-69 and 148: the entry read is fresh and is returned, or it is
\* stale and del removes the key, raising KeyError when the key is no longer
\* in the dictionary, or nothing was read.
CallerCheck(t) ==
    /\ callers[t].pc = "check"
    /\ LET me == callers[t]
           content_hash == compute_content_hash(me.content)
       IN  IF me.cached = None
           THEN /\ callers' = [callers EXCEPT ![t].pc = "translate"]
                /\ cache' = cache
           ELSE IF me.cached[1].original_content_hash = content_hash
           THEN /\ callers' = [callers EXCEPT ![t].pc = "returned",
                                  ![t].translated_content =
                                      me.cached[1].translated_content]
                /\ cache' = cache
           ELSE IF ConcKey \in DOMAIN cache
           THEN /\ callers' = [callers EXCEPT ![t].pc = "translate"]
                /\ cache' = DictDel(cache, ConcKey)
           ELSE /\ callers' = [callers EXCEPT ![t].pc = "failed",
                                              ![t].error = "KeyError"]
                /\ cache' = cache
    /\ UNCHANGED <<preferences, clock, last, pref_log, job, ret>>

\* Line 159: the translator, which touches nothing shared.
CallerTranslate(t) ==
    /\ callers[t].pc = "translate"
    /\ \E o \in Outcomes(callers[t].content, ConcLanguage) :
         LET r == translate_with_google(callers[t].content, ConcLanguage, o[1], o[2])
         IN  callers' = IF r.status = "ok"
                        THEN [callers EXCEPT ![t].pc = "store",
                                             ![t].translated_content = r.out]
                        ELSE [callers EXCEPT ![t].pc = "failed",
                                             ![t].error = r.status]
    /\ UNCHANGED <<cache, preferences, clock, last, pref_log, job, ret>>

\* Lines 162-173: the record is built with the time read and stored.  last
\* keeps the record of the latest store.
CallerStore(t) ==
    /\ callers[t].pc = "store"
    /\ clock < MaxClock
    /\ LET translation ==
               ChapterTranslation(ConcChapter, ConcLanguage,
                                  compute_content_hash(callers[t].content),
                                  callers[t].translated_content, clock)
       IN  /\ cache' = DictSet(cache, ConcKey, translation)
           /\ last' = [op |-> "store", caller |-> t, translation |-> translation]
    /\ clock' = clock + 1
    /\ callers' = [callers EXCEPT ![t].pc = "returned"]
    /\ UNCHANGED <<preferences, pref_log, job, ret>>

\* The call has returned or raised; its caller may begin another.
CallerReturn(t) ==
    /\ callers[t].pc \in {"returned", "failed"}
    /\ callers' = [callers EXCEPT ![t] = IdleCaller]
    /\ UNCHANGED <<cache, preferences, clock, last, pref_log, job, ret>>

NextConc ==
    \E t \in Callers :
        \/ CallerGet(t)
        \/ CallerCheck(t)
        \/ CallerTranslate(t)
        \/ CallerStore(t)
        \/ CallerReturn(t)

SpecConc == Init /\ [][NextConc]_vars

\* C18: with two translate_chapter calls on one key interleaved step by
\* step, no call ends in an error other than the provider's failure (so no
\* del of a key that the other call has already removed fails), the entry
\* in the cache is whole and is the record of the latest store, and its
\* fingerprint is that of the text its translated_content was made from.
C18_ConcurrentCallers ==
    /\ \A t \in Callers : callers[t].error \in {"none", "RuntimeError"}
    /\ (last.op = "store" /\ ConcKey \in DOMAIN cache) =>
           cache[ConcKey] = last.translation
    /\ \A k \in DOMAIN cache :
          \E content \in ConcContents :
             /\ cache[k].original_content_hash = compute_content_hash(content)
             /\ cache[k].translated_content \in TranslationsOf(content, cache[k].language)

\* C18 without its first part: what holds of the cache under every
\* interleaving.
C18_LastStoreWins ==
    /\ (last.op = "store" /\ ConcKey \in DOMAIN cache) =>
           cache[ConcKey] = last.translation
    /\ \A k \in DOMAIN cache :
          \E content \in ConcContents :
             /\ cache[k].original_content_hash = compute_content_hash(content)
             /\ cache[k].translated_content \in TranslationsOf(content, cache[k].language)

(***************************************************************************)
(* The cache against a service without one (SpecDeterministic).            *)
(***************************************************************************)
\* What a service without a cache returns for the call: the translator's
\* answer, the provider being the deterministic one.
Uncached(content, language) == translate_with_google(content, language, 1, 0).out

\* C19: with a provider that is deterministic and never fails, and the
\* fingerprint free of collisions, every translate_chapter call of every
\* sequence of calls succeeds and returns the translated_content that the
\* translator gives for the call's text and language, served from the
\* cache or not.
C19_CacheTransparency ==
    IsTranslate(last) =>
        /\ last.resp.status = "ok"
        /\ last.resp.translated_content = Uncached(last.content, last.language)

\* A call was served from the cache with a translation that differs from
\* its text, after another text had been stored under the same key.
C19_Witness ==
    /\ IsTranslate(last)
    /\ last.resp.cached
    /\ last.resp.translated_content # last.content
    /\ clock = MaxClock
    /\ Cardinality(DOMAIN cache) = 1

====
